---- MODULE Spec2Model ----
(***************************************************************************)
(* Analysis-job pipeline and threat registry of CryptoDetectAndPredict.    *)
(*                                                                         *)
(* The repository holds two server implementations of the same API:        *)
(*   "js"  src/server/index.js      (module-level arrays, python child)    *)
(*   "ts"  src/unnamed/part_001     (express router over MemStorage,       *)
(*         src/server/storage.ts     setTimeout stands in for the routine) *)
(* A run of the system runs one of them; the variable server records which.*)
(* Records are functions from field names to values, so that a field that  *)
(* was never assigned is absent from the record's DOMAIN, as in JavaScript.*)
(***************************************************************************)
EXTENDS Integers, Sequences, FiniteSets, TLC

VARIABLES
    server,            \* which implementation is running: "js" or "ts"
    fileAnalyses,      \* index.js:19 / storage.ts:32, array of job records
    threatDetections,  \* index.js:17 / storage.ts:30, array of threat records
    nextId,            \* index.js:20 / storage.ts:33
    now,               \* the clock read by new Date()
    proc,              \* id -> number of data events the child process emitted
    timers,            \* set of job ids whose 2000 ms timeout is pending
    response,          \* the last HTTP response sent
    submitResponse,    \* id -> the response POST /analyze sent for that job
    hist,              \* id -> sequence of statuses the record has held
    completedAtWrites, \* id -> number of assignments to completedAt
    errorSignal,       \* ids whose routine reported an error or bad output
    patches,           \* the last two answers of PATCH /threats/:id
    calls,             \* caller -> its quarantine request (idle, sent, done)
    raceOnActive,      \* two quarantine requests were in flight on one ACTIVE threat
    \* threats page (src/unnamed/part_002)
    rows,              \* threat id -> row.dataset.status
    selectedThreats,   \* the Set selectedThreats, in insertion order
    bulk,              \* the bulkQuarantine call in flight
    report,            \* what the last bulkQuarantine call reported
    single,            \* the single-threat request in flight
    reported,          \* ids whose false-positive report was accepted
    \* analysis page (part_000) and scanner page (part_003)
    poll,              \* the pollAnalysisResult loop
    monitor,           \* the monitorScanProgress loop
    \* more of the servers
    started,           \* job id -> number of times its routine was started
    users,             \* index.js:15 / storage.ts:29, array of user records
    signups,           \* caller -> its signup request (idle, sent, done)
    mlModels,          \* index.js:17 / storage.ts:31, array of model records
    training,          \* algorithms of the training runs that have not finished
    \* more of the threats page (part_002)
    currentFilter,     \* part_002:546
    display,           \* threat id -> the row is displayed
    rowData,           \* threat id -> path, level and detection date of the row
    threatUpdateInterval, \* part_002:544; 0 stands for null
    intervals,         \* ids of the interval timers that are active
    listeners,         \* number of visibilitychange listeners registered
    documentHidden,    \* document.hidden
    \* dashboard (part_000)
    scanInProgress,    \* part_000:4
    scanTimers,        \* the scan completion timers pending, by kind of scan
    notification,      \* the last showNotification message
    confirmAnswer      \* what confirm() of startFullScan returned last

registryVars == <<patches, calls, raceOnActive>>
pageVars == <<rows, selectedThreats, bulk, report, single, reported>>
pollVars == <<poll, monitor>>
accountVars == <<users, signups>>
modelVars == <<mlModels, training>>
filterVars == <<currentFilter, display, rowData>>
monitoringVars == <<threatUpdateInterval, intervals, listeners,
                    documentHidden>>
scanVars == <<scanInProgress, scanTimers, notification, confirmAnswer>>

vars == <<server, fileAnalyses, threatDetections, nextId, now, proc, timers,
          response, submitResponse, hist, completedAtWrites, errorSignal,
          registryVars, pageVars, pollVars, started, accountVars, modelVars,
          filterVars, monitoringVars, scanVars>>

----------------------------------------------------------------------------
(* Bounds of the model. *)

MaxJobs == 1        \* analysis jobs submitted
MaxThreats == 1     \* threat records created
MaxSignals == 2     \* data events one child process emits
MaxClock == 2       \* clock ticks
MaxRows == 2        \* threat rows on the threats page
MaxTrainings == 2   \* training runs in progress at once
MaxModels == 2      \* model records created
MaxScanTimers == 2  \* scan completion timers pending at once
MaxListeners == 4   \* visibilitychange listeners the page registers

----------------------------------------------------------------------------
(* Values. *)

FileNames == {"invoice.exe", ""}
ThreatLevels == {"LOW", "MEDIUM", "HIGH", "CRITICAL"}

\* null of a payload field, and of a timestamp field
NullPayload == "null"
NullTime == 0

\* texts the python child can write to stdout in one chunk
StdoutChunks == {"{\"threatLevel\":\"HIGH\"}", "{\"threatLevel\":\"LOW\"}",
                 "{\"threatLevel\":"}
\* texts the python child can write to stderr in one chunk
StderrChunks == {"Traceback"}

\* JSON.parse(data.toString()): the parsed payload, identified by its
\* threatLevel, or a SyntaxError
JSONParse(text) ==
    CASE text = "{\"threatLevel\":\"HIGH\"}" -> [ok |-> TRUE, value |-> "HIGH"]
      [] text = "{\"threatLevel\":\"LOW\"}"  -> [ok |-> TRUE, value |-> "LOW"]
      [] OTHER                               -> [ok |-> FALSE, value |-> NullPayload]

\* { ...old, ...updates }
Spread(old, updates) ==
    [k \in (DOMAIN old) \cup (DOMAIN updates) |->
        IF k \in DOMAIN updates THEN updates[k] ELSE old[k]]

IsQuarantined(t) == "isQuarantined" \in DOMAIN t /\ t.isQuarantined

\* array.findIndex(x => x.id === id); 0 stands for -1
FindIndex(arr, id) ==
    IF \E i \in 1..Len(arr) : arr[i].id = id
    THEN CHOOSE i \in 1..Len(arr) :
            arr[i].id = id /\ \A j \in 1..(i - 1) : arr[j].id # id
    ELSE 0

Terminal(status) == status \in {"COMPLETED", "FAILED"}

\* analysis.result || analysis.analysisResult, as the client reads it
ResultOf(a) ==
    IF "result" \in DOMAIN a /\ a.result # NullPayload THEN a.result
    ELSE IF "analysisResult" \in DOMAIN a THEN a.analysisResult
    ELSE NullPayload

HasError(a) == "error" \in DOMAIN a
HasCompletedAt(a) == "completedAt" \in DOMAIN a /\ a.completedAt # NullTime

Ids == 1..(MaxJobs + MaxThreats + 1)
NoResponse == [kind |-> "none", code |-> 0]

\* the two clients that send a quarantine request at the same time
Callers == {"a", "b"}
IdleCall == [state |-> "idle", id |-> 0, code |-> 0]
\* a client that has sent no signup request yet
IdleSignup == [state |-> "idle", body |-> [name |-> ""], existing |-> FALSE,
               code |-> 0]

\* data-threat-id of the rows the threats page was rendered with
RowIds == 1..MaxRows
NoBulk == [phase |-> "idle", requested |-> <<>>, outcome |-> <<>>]
NoReport == [kind |-> "none"]
NoSingle == [op |-> "none", id |-> 0]
IdleLoop == [state |-> "idle", attempts |-> 0, outcome |-> "none"]

\* currentFilter as the page declares it: no field is set
NoFilter == [search |-> <<>>, level |-> "", status |-> "", dateRange |-> ""]
\* a row for ./a detected on day 1 at level HIGH; file paths are sequences
\* of characters
PlainRow == [filePath |-> <<"a">>, threatLevel |-> "HIGH", detectionDate |-> 1]

----------------------------------------------------------------------------
\* the stores and the observers of the servers
InitServer ==
    /\ fileAnalyses = <<>>
    /\ threatDetections = <<>>
    /\ nextId = 1
    /\ now = 1
    /\ proc = [i \in {} |-> 0]
    /\ timers = {}
    /\ response = NoResponse
    /\ submitResponse = [i \in {} |-> NoResponse]
    /\ hist = [i \in {} |-> <<>>]
    /\ completedAtWrites = [i \in {} |-> 0]
    /\ errorSignal = {}
    /\ patches = <<>>
    /\ calls = [c \in Callers |-> IdleCall]
    /\ raceOnActive = FALSE
    /\ started = [i \in {} |-> 0]
    /\ users = <<>>
    /\ signups = [c \in Callers |-> IdleSignup]
    /\ mlModels = <<>>
    /\ training = <<>>

\* the threats page once loaded, apart from the rows it was rendered with
InitSelection ==
    /\ selectedThreats = <<>>
    /\ bulk = NoBulk
    /\ report = NoReport
    /\ single = NoSingle
    /\ reported = {}
    /\ currentFilter = NoFilter
    /\ display = [id \in RowIds |-> TRUE]
    /\ threatUpdateInterval = 0
    /\ intervals = {}
    /\ listeners = 0
    /\ documentHidden = FALSE

InitLoops ==
    /\ poll = IdleLoop
    /\ monitor = IdleLoop
    /\ scanInProgress = FALSE
    /\ scanTimers = <<>>
    /\ notification = "none"
    /\ confirmAnswer = "none"

Init ==
    /\ server \in {"js", "ts"}
    /\ InitServer
    /\ rows = [id \in RowIds |-> "active"]
    /\ rowData = [id \in RowIds |-> PlainRow]
    /\ InitSelection
    /\ InitLoops

InitJs == Init /\ server = "js"
InitTs == Init /\ server = "ts"

\* time passes
Tick ==
    /\ now < MaxClock
    /\ now' = now + 1
    /\ UNCHANGED <<server, fileAnalyses, threatDetections, nextId, proc, timers,
                   response, submitResponse, hist, completedAtWrites,
                   errorSignal>>
    /\ UNCHANGED <<registryVars, pageVars, pollVars>>
    /\ UNCHANGED <<started, accountVars, modelVars, filterVars, monitoringVars,
                   scanVars>>

----------------------------------------------------------------------------
(* src/server/index.js *)

\* spawn('python3', ...) or setTimeout(..., 2000) for job id: one more start
Start(id) ==
    [i \in DOMAIN started \cup {id} |->
        IF i = id
        THEN (IF i \in DOMAIN started THEN started[i] ELSE 0) + 1
        ELSE started[i]]

\* a handler that starts the routine again when a run has ended
AfterEndRetry(id) == Start(id)

\* the data handlers and the timeout callback start nothing
AfterEnd(id) == started

\* POST /api/analyze: the record is created, the child is spawned with its
\* two listeners, and the 201 response carries the record
PostApiAnalyze(fileName) ==
    /\ server = "js"
    /\ Len(fileAnalyses) < MaxJobs
    /\ LET analysis == [id |-> nextId, fileName |-> fileName, userId |-> 1,
                        status |-> "ANALYZING", uploadedAt |-> now,
                        result |-> NullPayload]
       IN /\ fileAnalyses' = Append(fileAnalyses, analysis)
          /\ proc' = proc @@ (nextId :> 0)
          /\ response' = [kind |-> "submit", code |-> 201, body |-> analysis]
          /\ submitResponse' = submitResponse @@
                 (nextId :> [kind |-> "submit", code |-> 201, body |-> analysis])
          /\ hist' = hist @@ (nextId :> <<"ANALYZING">>)
          /\ completedAtWrites' = completedAtWrites @@ (nextId :> 0)
    /\ nextId' = nextId + 1
    /\ UNCHANGED <<server, threatDetections, now, timers, errorSignal>>
    /\ UNCHANGED <<registryVars, pageVars, pollVars>>
    /\ started' = Start(nextId)
    /\ UNCHANGED <<accountVars, modelVars, filterVars, monitoringVars,
                   scanVars>>

\* pythonProcess.stdout.on('data', ...) of the job's child process
StdoutData(id, data) ==
    /\ server = "js"
    /\ id \in DOMAIN proc
    /\ proc[id] < MaxSignals
    /\ LET index == FindIndex(fileAnalyses, id)
           analysis == fileAnalyses[index]
           parsed == JSONParse(data)
           updated == IF parsed.ok
                      THEN Spread(analysis, [status |-> "COMPLETED",
                                             result |-> parsed.value,
                                             completedAt |-> now])
                      ELSE Spread(analysis, [status |-> "FAILED",
                                             error |-> "Analysis failed"])
       IN /\ fileAnalyses' = [fileAnalyses EXCEPT ![index] = updated]
          /\ hist' = [hist EXCEPT ![id] = Append(@, updated.status)]
          /\ completedAtWrites' = [completedAtWrites EXCEPT
                                     ![id] = IF parsed.ok THEN @ + 1 ELSE @]
          /\ errorSignal' = IF parsed.ok THEN errorSignal
                            ELSE errorSignal \cup {id}
    /\ proc' = [proc EXCEPT ![id] = @ + 1]
    /\ UNCHANGED <<server, threatDetections, nextId, now, timers, response,
                   submitResponse>>
    /\ UNCHANGED <<registryVars, pageVars, pollVars>>
    /\ started' = AfterEnd(id)
    /\ UNCHANGED <<accountVars, modelVars, filterVars, monitoringVars,
                   scanVars>>

\* pythonProcess.stderr.on('data', ...) of the job's child process
StderrData(id, data) ==
    /\ server = "js"
    /\ id \in DOMAIN proc
    /\ proc[id] < MaxSignals
    /\ LET index == FindIndex(fileAnalyses, id)
           analysis == fileAnalyses[index]
           updated == Spread(analysis, [status |-> "FAILED", error |-> data])
       IN /\ fileAnalyses' = [fileAnalyses EXCEPT ![index] = updated]
          /\ hist' = [hist EXCEPT ![id] = Append(@, "FAILED")]
    /\ errorSignal' = errorSignal \cup {id}
    /\ proc' = [proc EXCEPT ![id] = @ + 1]
    /\ UNCHANGED <<server, threatDetections, nextId, now, timers, response,
                   submitResponse, completedAtWrites>>
    /\ UNCHANGED <<registryVars, pageVars, pollVars>>
    /\ started' = AfterEnd(id)
    /\ UNCHANGED <<accountVars, modelVars, filterVars, monitoringVars,
                   scanVars>>

\* a lookup that goes through every record the server holds
GetAnswerAnyRecord(id) ==
    LET all == fileAnalyses \o threatDetections
        index == FindIndex(all, id)
    IN IF index = 0
       THEN [kind |-> "get", code |-> 404, id |-> id]
       ELSE [kind |-> "get", code |-> 200, id |-> id, body |-> all[index]]

\* what a GET of a job answers
GetAnswer(id) ==
    LET index == FindIndex(fileAnalyses, id)
    IN IF index = 0
       THEN [kind |-> "get", code |-> 404, id |-> id]
       ELSE [kind |-> "get", code |-> 200, id |-> id,
             body |-> fileAnalyses[index]]

\* GET /api/analyze/:id
GetApiAnalyzeId(id) ==
    /\ server = "js"
    /\ response' = GetAnswer(id)
    /\ UNCHANGED <<server, fileAnalyses, threatDetections, nextId, now, proc,
                   timers, submitResponse, hist, completedAtWrites,
                   errorSignal>>
    /\ UNCHANGED <<registryVars, pageVars, pollVars>>
    /\ UNCHANGED <<started, accountVars, modelVars, filterVars, monitoringVars,
                   scanVars>>

\* bodies a client posts to /api/threats
ThreatBodies ==
    {[fileName |-> "invoice.exe", threatLevel |-> "HIGH"],
     [fileName |-> "invoice.exe", threatLevel |-> "CRITICAL",
      isQuarantined |-> TRUE],
     [fileName |-> "invoice.exe", threatLevel |-> "HIGH", id |-> 1]}

\* POST /api/threats
PostApiThreats(body) ==
    /\ server = "js"
    /\ Len(threatDetections) < MaxThreats
    /\ LET newThreat == Spread(Spread([id |-> nextId], body),
                               [detectedAt |-> now])
       IN /\ threatDetections' = Append(threatDetections, newThreat)
          /\ response' = [kind |-> "createThreat", code |-> 201,
                          body |-> newThreat]
    /\ nextId' = nextId + 1
    /\ UNCHANGED <<server, fileAnalyses, now, proc, timers, submitResponse,
                   hist, completedAtWrites, errorSignal>>
    /\ UNCHANGED <<registryVars, pageVars, pollVars>>
    /\ UNCHANGED <<started, accountVars, modelVars, filterVars, monitoringVars,
                   scanVars>>

NextJs ==
    \/ Tick
    \/ \E f \in FileNames : PostApiAnalyze(f)
    \/ \E id \in Ids, data \in StdoutChunks : StdoutData(id, data)
    \/ \E id \in Ids, data \in StderrChunks : StderrData(id, data)
    \/ \E id \in Ids : GetApiAnalyzeId(id)
    \/ \E body \in ThreatBodies : PostApiThreats(body)

----------------------------------------------------------------------------
(* src/unnamed/part_001 (router) over src/server/storage.ts (MemStorage) *)

\* bodies a client posts to /analyze
AnalyzeBodies ==
    {[fileName |-> f, filePath |-> "/tmp/upload", status |-> st] :
        f \in FileNames, st \in {"PENDING", "COMPLETED"}}
    \cup {[fileName |-> "invoice.exe", filePath |-> "/tmp/upload",
           status |-> "PENDING", analysisResult |-> "LOW"]}

\* insertFileAnalysisSchema.parse(req.body) does not throw. The schema module
\* (shared/schema) is not part of the sources at hand: a payload is taken to
\* be malformed when it names no file, and the fields createFileAnalysis
\* reads (status, analysisResult) pass through as the request gives them.
insertFileAnalysisSchemaAccepts(body) ==
    /\ "fileName" \in DOMAIN body
    /\ body.fileName # ""

\* insertThreatDetectionSchema.parse(req.body) does not throw (shared/schema,
\* as above: fileName and a known threatLevel are required)
insertThreatDetectionSchemaAccepts(body) ==
    /\ "fileName" \in DOMAIN body
    /\ "threatLevel" \in DOMAIN body
    /\ body.threatLevel \in ThreatLevels

\* MemStorage.createFileAnalysis: the record it builds
createFileAnalysis(analysis) ==
    [id |-> nextId,
     userId |-> IF "userId" \in DOMAIN analysis THEN analysis.userId ELSE 0,  \* || null
     fileName |-> analysis.fileName,
     filePath |-> analysis.filePath,
     status |-> analysis.status,
     analysisResult |-> IF "analysisResult" \in DOMAIN analysis
                        THEN analysis.analysisResult ELSE NullPayload,
     uploadedAt |-> now,
     completedAt |-> NullTime]

\* MemStorage.updateFileAnalysis: the array after the update
updateFileAnalysis(id, updates) ==
    LET index == FindIndex(fileAnalyses, id)
    IN [fileAnalyses EXCEPT ![index] = Spread(@, updates)]

\* MemStorage.createThreatDetection: the record it builds
createThreatDetection(detection) ==
    [id |-> nextId,
     userId |-> IF "userId" \in DOMAIN detection THEN detection.userId ELSE 0,
     fileName |-> detection.fileName,
     threatLevel |-> detection.threatLevel,
     isQuarantined |-> IF "isQuarantined" \in DOMAIN detection
                       THEN detection.isQuarantined ELSE FALSE,
     detectedAt |-> now]

\* an update that lets the stored fields win over the updates
updateThreatDetectionKeepsOld(id, updates) ==
    LET index == FindIndex(threatDetections, id)
    IN [threatDetections EXCEPT ![index] = Spread(updates, @)]

\* MemStorage.updateThreatDetection: the array after the update
updateThreatDetection(id, updates) ==
    LET index == FindIndex(threatDetections, id)
    IN [threatDetections EXCEPT ![index] = Spread(@, updates)]

\* router.post('/analyze'): parse, create, arm the 2000 ms timeout, answer 201;
\* a body the schema rejects is answered 400
RouterPostAnalyze(body) ==
    /\ server = "ts"
    /\ IF insertFileAnalysisSchemaAccepts(body)
       THEN /\ Len(fileAnalyses) < MaxJobs
            /\ LET analysis == createFileAnalysis(body)
               IN /\ fileAnalyses' = Append(fileAnalyses, analysis)
                  /\ response' = [kind |-> "submit", code |-> 201,
                                  body |-> analysis]
                  /\ submitResponse' = submitResponse @@
                        (nextId :> [kind |-> "submit", code |-> 201,
                                    body |-> analysis])
                  /\ hist' = hist @@ (nextId :> <<analysis.status>>)
                  /\ completedAtWrites' = completedAtWrites @@ (nextId :> 0)
            /\ timers' = timers \cup {nextId}
            /\ nextId' = nextId + 1
       ELSE /\ response' = [kind |-> "submit", code |-> 400]
            /\ UNCHANGED <<fileAnalyses, submitResponse, hist,
                           completedAtWrites, timers, nextId>>
    /\ UNCHANGED <<server, threatDetections, now, proc, errorSignal>>
    /\ UNCHANGED <<registryVars, pageVars, pollVars>>
    /\ started' = IF insertFileAnalysisSchemaAccepts(body)
                  THEN Start(nextId) ELSE started
    /\ UNCHANGED <<accountVars, modelVars, filterVars, monitoringVars,
                   scanVars>>

\* the setTimeout callback of router.post('/analyze')
AnalyzeTimeout(id, threatLevel) ==
    /\ server = "ts"
    /\ id \in timers
    /\ fileAnalyses' = updateFileAnalysis(id, [status |-> "COMPLETED",
                                               analysisResult |-> threatLevel,
                                               completedAt |-> now])
    /\ hist' = [hist EXCEPT ![id] = Append(@, "COMPLETED")]
    /\ completedAtWrites' = [completedAtWrites EXCEPT ![id] = @ + 1]
    /\ timers' = timers \ {id}
    /\ UNCHANGED <<server, threatDetections, nextId, now, proc, response,
                   submitResponse, errorSignal>>
    /\ UNCHANGED <<registryVars, pageVars, pollVars>>
    /\ started' = AfterEnd(id)
    /\ UNCHANGED <<accountVars, modelVars, filterVars, monitoringVars,
                   scanVars>>

\* router.get('/analyze/:id')
RouterGetAnalyzeId(id) ==
    /\ server = "ts"
    /\ response' = GetAnswer(id)
    /\ UNCHANGED <<server, fileAnalyses, threatDetections, nextId, now, proc,
                   timers, submitResponse, hist, completedAtWrites,
                   errorSignal>>
    /\ UNCHANGED <<registryVars, pageVars, pollVars>>
    /\ UNCHANGED <<started, accountVars, modelVars, filterVars, monitoringVars,
                   scanVars>>

\* router.post('/threats')
RouterPostThreats(body) ==
    /\ server = "ts"
    /\ IF insertThreatDetectionSchemaAccepts(body)
       THEN /\ Len(threatDetections) < MaxThreats
            /\ LET threat == createThreatDetection(body)
               IN /\ threatDetections' = Append(threatDetections, threat)
                  /\ response' = [kind |-> "createThreat", code |-> 201,
                                  body |-> threat]
            /\ nextId' = nextId + 1
       ELSE /\ response' = [kind |-> "createThreat", code |-> 400]
            /\ UNCHANGED <<threatDetections, nextId>>
    /\ UNCHANGED <<server, fileAnalyses, now, proc, timers, submitResponse,
                   hist, completedAtWrites, errorSignal>>
    /\ UNCHANGED <<registryVars, pageVars, pollVars>>
    /\ UNCHANGED <<started, accountVars, modelVars, filterVars, monitoringVars,
                   scanVars>>

\* bodies a client sends with PATCH /threats/:id
PatchBodies == {[isQuarantined |-> TRUE], [isQuarantined |-> FALSE]}

\* the last two answers of the PATCH handler, oldest first
LogPatch(answer) ==
    IF Len(patches) < 2 THEN Append(patches, answer)
    ELSE <<patches[2], answer>>

\* what router.patch('/threats/:id') answers and stores; before is the record
\* the update found
PatchAnswer(id, body) ==
    LET index == FindIndex(threatDetections, id)
    IN IF index = 0
       THEN [kind |-> "patchThreat", code |-> 404, id |-> id, updates |-> body]
       ELSE [kind |-> "patchThreat", code |-> 200, id |-> id, updates |-> body,
             before |-> threatDetections[index],
             body |-> updateThreatDetection(id, body)[index]]

\* the body of router.patch('/threats/:id')
PatchThreat(id, body) ==
    /\ server = "ts"
    /\ threatDetections' = IF FindIndex(threatDetections, id) = 0
                           THEN threatDetections
                           ELSE updateThreatDetection(id, body)
    /\ response' = PatchAnswer(id, body)
    /\ UNCHANGED <<server, fileAnalyses, nextId, now, proc, timers,
                   submitResponse, hist, completedAtWrites, errorSignal>>
    /\ UNCHANGED <<raceOnActive, pageVars, pollVars>>
    /\ UNCHANGED <<started, accountVars, modelVars, filterVars, monitoringVars,
                   scanVars>>

\* router.patch('/threats/:id')
RouterPatchThreatsId(id, body) ==
    /\ PatchThreat(id, body)
    /\ UNCHANGED <<calls, patches>>

\* router.patch('/threats/:id'), its answer kept with the one before it
RouterPatchThreatsIdLogged(id, body) ==
    /\ PatchThreat(id, body)
    /\ patches' = LogPatch(PatchAnswer(id, body))
    /\ UNCHANGED calls

NextTs ==
    \/ Tick
    \/ \E body \in AnalyzeBodies : RouterPostAnalyze(body)
    \/ \E id \in Ids, l \in {"HIGH", "MEDIUM", "LOW"} : AnalyzeTimeout(id, l)
    \/ \E id \in Ids : RouterGetAnalyzeId(id)
    \/ \E body \in ThreatBodies \cup {[fileName |-> "invoice.exe"]} :
          RouterPostThreats(body)
    \/ \E id \in Ids, body \in PatchBodies : RouterPatchThreatsId(id, body)

Next == NextJs \/ NextTs

Spec == Init /\ [][Next]_vars
SpecJs == InitJs /\ [][NextJs]_vars

\* a timeout that is armed does fire; nothing else is scheduled by the code
\* (the child process may never write, a client may never send a request)
FairSpec == Spec /\ WF_vars(\E id \in Ids, l \in {"HIGH", "MEDIUM", "LOW"} :
                                AnalyzeTimeout(id, l))

\* the threat registry on its own: threats are created and patched
NextRegistry ==
    \/ Tick
    \/ \E body \in ThreatBodies \cup {[fileName |-> "invoice.exe"]} :
          RouterPostThreats(body)
    \/ \E id \in Ids, body \in PatchBodies :
          RouterPatchThreatsIdLogged(id, body)

SpecRegistry == InitTs /\ [][NextRegistry]_vars

----------------------------------------------------------------------------
(* Two clients quarantine at the same time: both requests are in flight
   before the event loop runs the PATCH handler for either of them *)

ActiveThreat(id) ==
    /\ FindIndex(threatDetections, id) # 0
    /\ ~IsQuarantined(threatDetections[FindIndex(threatDetections, id)])

\* caller c sends PATCH /threats/:id {isQuarantined: true}
QuarantineSend(c, id) ==
    /\ server = "ts"
    /\ calls[c].state = "idle"
    /\ calls' = [calls EXCEPT ![c] = [state |-> "sent", id |-> id, code |-> 0]]
    /\ raceOnActive' = (raceOnActive \/
            (ActiveThreat(id) /\
             \E d \in Callers \ {c} :
                 calls[d].state = "sent" /\ calls[d].id = id))
    /\ UNCHANGED <<server, fileAnalyses, threatDetections, nextId, now, proc,
                   timers, response, submitResponse, hist, completedAtWrites,
                   errorSignal, patches, pageVars, pollVars>>
    /\ UNCHANGED <<started, accountVars, modelVars, filterVars, monitoringVars,
                   scanVars>>

\* the event loop runs the PATCH handler for the request of caller c
QuarantineHandle(c) ==
    /\ calls[c].state = "sent"
    /\ PatchThreat(calls[c].id, [isQuarantined |-> TRUE])
    /\ UNCHANGED patches
    /\ calls' = [calls EXCEPT ![c] =
                    [state |-> "done", id |-> calls[c].id,
                     code |-> PatchAnswer(calls[c].id,
                                          [isQuarantined |-> TRUE]).code]]

NextRace ==
    \/ \E body \in ThreatBodies : RouterPostThreats(body)
    \/ \E c \in Callers, id \in Ids : QuarantineSend(c, id)
    \/ \E c \in Callers : QuarantineHandle(c)

SpecRace == InitTs /\ [][NextRace]_vars

----------------------------------------------------------------------------
(* The threats page (src/unnamed/part_002).  The backend behind its requests
   is not part of the sources: what a request comes back with is an input. *)

\* what a fetch can come back with: a 2xx response, another response, or a
\* rejected promise
Outcomes == {"ok", "notok", "rejected"}

\* the page is rendered with rows that are active or already quarantined
InitPage ==
    /\ server = "js"
    /\ InitServer
    /\ rows \in [RowIds -> {"active", "quarantined"}]
    /\ rowData = [id \in RowIds |-> PlainRow]
    /\ InitSelection
    /\ InitLoops

\* Set.prototype.add and Set.prototype.delete on an insertion-ordered Set
SetAdd(set, v) ==
    IF \E i \in 1..Len(set) : set[i] = v THEN set ELSE Append(set, v)
SetDelete(set, v) == SelectSeq(set, LAMBDA x : x # v)

RECURSIVE AddAll(_, _, _)
AddAll(set, from, to) ==
    IF from > to THEN set ELSE AddAll(SetAdd(set, from), from + 1, to)

\* change handler of one .threat-checkbox
ToggleThreat(id, checked) ==
    /\ selectedThreats' = IF checked THEN SetAdd(selectedThreats, id)
                          ELSE SetDelete(selectedThreats, id)
    /\ UNCHANGED <<rows, bulk, report, single, reported>>
    /\ UNCHANGED <<server, fileAnalyses, threatDetections, nextId, now, proc,
                   timers, response, submitResponse, hist, completedAtWrites,
                   errorSignal, registryVars, pollVars>>
    /\ UNCHANGED <<started, accountVars, modelVars, filterVars, monitoringVars,
                   scanVars>>

\* change handler of selectAllCheckbox: every checkbox, in document order
SelectAll(isChecked) ==
    /\ selectedThreats' = IF isChecked THEN AddAll(selectedThreats, 1, MaxRows)
                          ELSE <<>>
    /\ UNCHANGED <<rows, bulk, report, single, reported>>
    /\ UNCHANGED <<server, fileAnalyses, threatDetections, nextId, now, proc,
                   timers, response, submitResponse, hist, completedAtWrites,
                   errorSignal, registryVars, pollVars>>
    /\ UNCHANGED <<started, accountVars, modelVars, filterVars, monitoringVars,
                   scanVars>>

\* String.prototype.toLowerCase over the characters that occur
ToLowerCase(str) ==
    [i \in 1..Len(str) |->
        CASE str[i] = "A" -> "a"
          [] str[i] = "B" -> "b"
          [] str[i] = "C" -> "c"
          [] OTHER -> str[i]]

\* String.prototype.includes
Includes(str, part) ==
    \E k \in 0..(Len(str) - Len(part)) :
        \A i \in 1..Len(part) : str[k + i] = part[i]

\* days in the week range, and the length a month is taken to have; dates
\* are counted in days
WeekDays == 7
MonthDays == 30

\* isWithinDateRange(date, range) when the clock reads today
isWithinDateRange(date, range, today) ==
    CASE range = "today" -> date >= today
      [] range = "week" -> date >= today - WeekDays
      [] range = "month" -> date >= today - ((today - 1) % MonthDays)
      [] OTHER -> TRUE

\* a test that lets a row through when its level or its status matches
shouldShowThreatRowEither(id, filter) ==
    LET filePath == ToLowerCase(rowData[id].filePath)
    IN IF filter.search # <<>> /\ ~Includes(filePath, filter.search)
       THEN FALSE
       ELSE IF /\ filter.level # ""
               /\ rowData[id].threatLevel # filter.level
               /\ filter.status # ""
               /\ rows[id] # filter.status
       THEN FALSE
       ELSE IF filter.dateRange # ""
               /\ ~isWithinDateRange(rowData[id].detectionDate,
                                     filter.dateRange, now)
       THEN FALSE
       ELSE TRUE

\* shouldShowThreatRow(row) under the filter given
shouldShowThreatRow(id, filter) ==
    LET filePath == ToLowerCase(rowData[id].filePath)
    IN IF filter.search # <<>> /\ ~Includes(filePath, filter.search)
       THEN FALSE
       ELSE IF filter.level # "" /\ rowData[id].threatLevel # filter.level
       THEN FALSE
       ELSE IF filter.status # "" /\ rows[id] # filter.status
       THEN FALSE
       ELSE IF filter.dateRange # ""
               /\ ~isWithinDateRange(rowData[id].detectionDate,
                                     filter.dateRange, now)
       THEN FALSE
       ELSE TRUE

\* applyFilters with currentFilter as it is: each row is shown or hidden and
\* the selection is cleared
ApplyFilters ==
    /\ display' = [id \in RowIds |-> shouldShowThreatRow(id, currentFilter)]
    /\ selectedThreats' = <<>>
    /\ UNCHANGED <<rows, bulk, report, single, reported>>
    /\ UNCHANGED <<server, fileAnalyses, threatDetections, nextId, now, proc,
                   timers, response, submitResponse, hist, completedAtWrites,
                   errorSignal, registryVars, pollVars>>
    /\ UNCHANGED <<started, accountVars, modelVars, currentFilter, rowData,
                   monitoringVars, scanVars>>

\* a guard that never sees an empty selection
NothingSelectedNever == FALSE

\* selectedThreats.size === 0
NothingSelected == Len(selectedThreats) = 0

\* bulkQuarantine up to its await: the empty-selection return, the confirm
\* dialog, one fetch per selected id
BulkQuarantine(confirmation) ==
    /\ bulk.phase = "idle"
    /\ IF NothingSelected
       THEN /\ report' = [kind |-> "empty"]
            /\ UNCHANGED bulk
       ELSE IF ~confirmation
       THEN /\ report' = [kind |-> "declined"]
            /\ UNCHANGED bulk
       ELSE /\ bulk' = [phase |-> "inflight",
                        requested |-> selectedThreats,
                        outcome |-> [i \in 1..Len(selectedThreats) |->
                                        "pending"]]
            /\ report' = NoReport
    /\ UNCHANGED <<rows, selectedThreats, single, reported>>
    /\ UNCHANGED <<server, fileAnalyses, threatDetections, nextId, now, proc,
                   timers, response, submitResponse, hist, completedAtWrites,
                   errorSignal, registryVars, pollVars>>
    /\ UNCHANGED <<started, accountVars, modelVars, filterVars, monitoringVars,
                   scanVars>>

\* the fetch for promises[i] settles
FetchSettle(i, outcome) ==
    /\ bulk.phase = "inflight"
    /\ i \in 1..Len(bulk.outcome)
    /\ bulk.outcome[i] = "pending"
    /\ bulk' = [bulk EXCEPT !.outcome[i] = outcome]
    /\ UNCHANGED <<rows, selectedThreats, report, single, reported>>
    /\ UNCHANGED <<server, fileAnalyses, threatDetections, nextId, now, proc,
                   timers, response, submitResponse, hist, completedAtWrites,
                   errorSignal, registryVars, pollVars>>
    /\ UNCHANGED <<started, accountVars, modelVars, filterVars, monitoringVars,
                   scanVars>>

\* a Promise.race would resume at the first promise that settles
PromiseRace(outcomes) ==
    \E i \in 1..Len(outcomes) : outcomes[i] # "pending"

\* await Promise.allSettled(promises) resumes when every promise has settled
PromiseAllSettled(outcomes) ==
    \A i \in 1..Len(outcomes) : outcomes[i] # "pending"

\* a Promise.all would reject as soon as a promise is rejected
PromiseAllRejects(outcomes) ==
    \E i \in 1..Len(outcomes) : outcomes[i] = "rejected"

\* Promise.allSettled never rejects
AllSettledRejects(outcomes) == FALSE

\* a test that looks at result.status only
SucceededIfFulfilled(result) == result \in {"ok", "notok"}

\* result.status === 'fulfilled' && result.value.ok
Succeeded(result) == result = "ok"

\* Array.from(selectedThreats)[index]; 0 stands for undefined
ThreatIdAt(index) ==
    IF index <= Len(selectedThreats) THEN selectedThreats[index] ELSE 0

\* updateThreatRowStatus over the results that count as success
RowsAfterTally(results) ==
    [id \in RowIds |->
        IF \E i \in 1..Len(results) :
              Succeeded(results[i]) /\ ThreatIdAt(i) = id
        THEN "quarantined" ELSE rows[id]]

SuccessCount(results) ==
    Cardinality({i \in 1..Len(results) : Succeeded(results[i])})
FailCount(results) ==
    Cardinality({i \in 1..Len(results) : ~Succeeded(results[i])})

\* bulkQuarantine after its await: the tally, the toasts, the cleared
\* selection; the catch branch when the await rejects
BulkTally ==
    /\ bulk.phase = "inflight"
    /\ PromiseAllSettled(bulk.outcome) \/ AllSettledRejects(bulk.outcome)
    /\ IF AllSettledRejects(bulk.outcome)
       THEN /\ report' = [kind |-> "error", requested |-> bulk.requested,
                          outcome |-> bulk.outcome]
            /\ UNCHANGED <<rows, selectedThreats>>
       ELSE /\ rows' = RowsAfterTally(bulk.outcome)
            /\ report' = [kind |-> "tally", requested |-> bulk.requested,
                          outcome |-> bulk.outcome,
                          successCount |-> SuccessCount(bulk.outcome),
                          failCount |-> FailCount(bulk.outcome)]
            /\ selectedThreats' = <<>>
    /\ bulk' = NoBulk
    /\ UNCHANGED <<single, reported>>
    /\ UNCHANGED <<server, fileAnalyses, threatDetections, nextId, now, proc,
                   timers, response, submitResponse, hist, completedAtWrites,
                   errorSignal, registryVars, pollVars>>
    /\ UNCHANGED <<started, accountVars, modelVars, filterVars, monitoringVars,
                   scanVars>>

NextBulk ==
    \/ \E id \in RowIds, checked \in BOOLEAN : ToggleThreat(id, checked)
    \/ \E isChecked \in BOOLEAN : SelectAll(isChecked)
    \/ ApplyFilters
    \/ \E confirmation \in BOOLEAN : BulkQuarantine(confirmation)
    \/ \E i \in RowIds, outcome \in Outcomes : FetchSettle(i, outcome)
    \/ BulkTally

SpecBulk == InitPage /\ [][NextBulk]_vars

----------------------------------------------------------------------------
(* The single-threat buttons of the threats page *)

\* a single request can come back 2xx with success true, 2xx without it,
\* with another status, or not at all
SingleOutcomes == {"success", "nosuccess", "notok", "rejected"}

Toast(op, id, level) == [kind |-> "toast", op |-> op, id |-> id, level |-> level]

\* updateThreatRowStatus(threatId, status)
updateThreatRowStatus(threatId, status) ==
    IF threatId \in DOMAIN rows THEN [rows EXCEPT ![threatId] = status]
    ELSE rows

\* handleQuarantineAction up to its await
HandleQuarantineAction(threatId, confirmation) ==
    /\ single = NoSingle
    /\ single' = IF confirmation THEN [op |-> "quarantine", id |-> threatId]
                 ELSE single
    /\ UNCHANGED <<rows, selectedThreats, bulk, report, reported>>
    /\ UNCHANGED <<server, fileAnalyses, threatDetections, nextId, now, proc,
                   timers, response, submitResponse, hist, completedAtWrites,
                   errorSignal, registryVars, pollVars>>
    /\ UNCHANGED <<started, accountVars, modelVars, filterVars, monitoringVars,
                   scanVars>>

\* handleRestoreAction up to its await
HandleRestoreAction(threatId, confirmation) ==
    /\ single = NoSingle
    /\ single' = IF confirmation THEN [op |-> "restore", id |-> threatId]
                 ELSE single
    /\ UNCHANGED <<rows, selectedThreats, bulk, report, reported>>
    /\ UNCHANGED <<server, fileAnalyses, threatDetections, nextId, now, proc,
                   timers, response, submitResponse, hist, completedAtWrites,
                   errorSignal, registryVars, pollVars>>
    /\ UNCHANGED <<started, accountVars, modelVars, filterVars, monitoringVars,
                   scanVars>>

\* handleFalsePositiveReport up to its await; cancelled is reason === null
HandleFalsePositiveReport(threatId, cancelled) ==
    /\ single = NoSingle
    /\ single' = IF cancelled THEN single
                 ELSE [op |-> "report", id |-> threatId]
    /\ UNCHANGED <<rows, selectedThreats, bulk, report, reported>>
    /\ UNCHANGED <<server, fileAnalyses, threatDetections, nextId, now, proc,
                   timers, response, submitResponse, hist, completedAtWrites,
                   errorSignal, registryVars, pollVars>>
    /\ UNCHANGED <<started, accountVars, modelVars, filterVars, monitoringVars,
                   scanVars>>

\* the handler that is waiting resumes with what its fetch came back with
SingleSettle(outcome) ==
    /\ single # NoSingle
    /\ LET id == single.id
           ok == outcome \in {"success", "nosuccess"}
       IN CASE single.op = "quarantine" ->
                 /\ rows' = IF ok THEN updateThreatRowStatus(id, "quarantined")
                            ELSE rows
                 /\ report' = Toast("quarantine", id,
                                    IF ok THEN "success" ELSE "danger")
                 /\ UNCHANGED reported
            [] single.op = "restore" ->
                 /\ rows' = IF outcome = "success"
                            THEN updateThreatRowStatus(id, "active")
                            ELSE rows
                 /\ report' = Toast("restore", id,
                                    IF outcome = "success" THEN "success"
                                    ELSE "danger")
                 /\ UNCHANGED reported
            [] single.op = "report" ->
                 /\ report' = Toast("report", id,
                                    IF outcome = "success" THEN "info"
                                    ELSE "danger")
                 /\ reported' = IF outcome = "success"
                                THEN reported \cup {id} ELSE reported
                 /\ UNCHANGED rows
    /\ single' = NoSingle
    /\ UNCHANGED <<selectedThreats, bulk>>
    /\ UNCHANGED <<server, fileAnalyses, threatDetections, nextId, now, proc,
                   timers, response, submitResponse, hist, completedAtWrites,
                   errorSignal, registryVars, pollVars>>
    /\ UNCHANGED <<started, accountVars, modelVars, filterVars, monitoringVars,
                   scanVars>>

NextPage ==
    \/ \E id \in RowIds, c \in BOOLEAN : HandleQuarantineAction(id, c)
    \/ \E id \in RowIds, c \in BOOLEAN : HandleRestoreAction(id, c)
    \/ \E id \in RowIds, c \in BOOLEAN : HandleFalsePositiveReport(id, c)
    \/ \E outcome \in SingleOutcomes : SingleSettle(outcome)

SpecPage == InitPage /\ [][NextPage]_vars

----------------------------------------------------------------------------
(* Filters and monitoring of the threats page *)

\* rows the page can be rendered with: path, level, status, detection day
RowProfiles ==
    {[filePath |-> <<"a", "b">>, threatLevel |-> "HIGH",
      status |-> "active", detectionDate |-> 2],
     [filePath |-> <<"C">>, threatLevel |-> "LOW",
      status |-> "quarantined", detectionDate |-> 0 - 3],
     [filePath |-> <<"b">>, threatLevel |-> "HIGH",
      status |-> "quarantined", detectionDate |-> 0 - 10],
     [filePath |-> <<"c", "a">>, threatLevel |-> "LOW",
      status |-> "active", detectionDate |-> 1]}

\* what can be typed into the search box and picked in the three dropdowns
SearchTexts == {<<>>, <<"b">>, <<"C">>}
LevelOptions == {"", "HIGH", "LOW"}
StatusOptions == {"", "active", "quarantined"}
DateOptions == {"", "today", "week", "month"}

InitThreats ==
    /\ server = "js"
    /\ InitServer
    /\ \E profile \in [RowIds -> RowProfiles] :
          /\ rows = [id \in RowIds |-> profile[id].status]
          /\ rowData = [id \in RowIds |->
                           [filePath |-> profile[id].filePath,
                            threatLevel |-> profile[id].threatLevel,
                            detectionDate |-> profile[id].detectionDate]]
    /\ InitSelection
    /\ InitLoops

\* a filter handler: one field of currentFilter is set, then applyFilters()
SetFilter(filter) ==
    /\ currentFilter' = filter
    /\ display' = [id \in RowIds |-> shouldShowThreatRow(id, filter)]
    /\ selectedThreats' = <<>>
    /\ UNCHANGED <<rows, bulk, report, single, reported>>
    /\ UNCHANGED <<server, fileAnalyses, threatDetections, nextId, now, proc,
                   timers, response, submitResponse, hist, completedAtWrites,
                   errorSignal, registryVars, pollVars>>
    /\ UNCHANGED <<started, accountVars, modelVars, rowData, monitoringVars,
                   scanVars>>

\* the debounced input handler of searchInput
SearchInput(value) ==
    SetFilter([currentFilter EXCEPT !.search = ToLowerCase(value)])

\* the change handlers of levelFilter, statusFilter and dateFilter
LevelChange(value) == SetFilter([currentFilter EXCEPT !.level = value])
StatusChange(value) == SetFilter([currentFilter EXCEPT !.status = value])
DateChange(value) == SetFilter([currentFilter EXCEPT !.dateRange = value])

\* the monitoring state as one record
Monitoring ==
    [interval |-> threatUpdateInterval, active |-> intervals,
     listeners |-> listeners]

Largest(S) == IF S = {} THEN 0 ELSE CHOOSE x \in S : \A y \in S : y <= x

\* startThreatMonitoring: a new interval timer is stored in
\* threatUpdateInterval and one more visibilitychange listener is registered
startThreatMonitoring(m) ==
    LET id == Largest(m.active) + 1
    IN [interval |-> id, active |-> m.active \cup {id},
        listeners |-> m.listeners + 1]

\* stopThreatMonitoring
stopThreatMonitoring(m) ==
    IF m.interval # 0
    THEN [m EXCEPT !.active = @ \ {m.interval}, !.interval = 0]
    ELSE m

\* every listener registered when the event is dispatched runs once
RECURSIVE RunListeners(_, _, _)
RunListeners(m, n, hidden) ==
    IF n = 0 THEN m
    ELSE RunListeners(IF hidden THEN stopThreatMonitoring(m)
                      ELSE startThreatMonitoring(m), n - 1, hidden)

SetMonitoring(m) ==
    /\ threatUpdateInterval' = m.interval
    /\ intervals' = m.active
    /\ listeners' = m.listeners

\* initializeThreatsPage, as far as monitoring goes
InitializeThreatsPage ==
    /\ listeners = 0
    /\ SetMonitoring(startThreatMonitoring(Monitoring))
    /\ UNCHANGED documentHidden
    /\ UNCHANGED <<pageVars, filterVars>>
    /\ UNCHANGED <<server, fileAnalyses, threatDetections, nextId, now, proc,
                   timers, response, submitResponse, hist, completedAtWrites,
                   errorSignal, registryVars, pollVars>>
    /\ UNCHANGED <<started, accountVars, modelVars, scanVars>>

\* the page becomes hidden or visible again: a visibilitychange event
VisibilityChange ==
    /\ listeners > 0
    /\ ~documentHidden \/ 2 * listeners <= MaxListeners
    /\ documentHidden' = ~documentHidden
    /\ SetMonitoring(RunListeners(Monitoring, listeners, ~documentHidden))
    /\ UNCHANGED <<pageVars, filterVars>>
    /\ UNCHANGED <<server, fileAnalyses, threatDetections, nextId, now, proc,
                   timers, response, submitResponse, hist, completedAtWrites,
                   errorSignal, registryVars, pollVars>>
    /\ UNCHANGED <<started, accountVars, modelVars, scanVars>>

NextThreats ==
    \/ Tick
    \/ \E value \in SearchTexts : SearchInput(value)
    \/ \E value \in LevelOptions : LevelChange(value)
    \/ \E value \in StatusOptions : StatusChange(value)
    \/ \E value \in DateOptions : DateChange(value)
    \/ InitializeThreatsPage
    \/ VisibilityChange

SpecThreats == InitThreats /\ [][NextThreats]_vars

----------------------------------------------------------------------------
(* Training and the ML models: POST /api/train and GET /api/models/active of
   index.js, POST /train and GET /models/active of the router, over
   createMlModel and getActiveMlModel of storage.ts. *)

\* values of the algorithm field of a training request; the first is the
\* default of index.js:132, the second the default of the router
Algorithms == {"ensemble", "RANDOM_FOREST"}

\* texts the training script can write to stdout in one chunk
TrainingChunks == {"{\"accuracy\":0.9}", "{\"accuracy\":"}

\* accuracies, in percent, the simulated training of the router can draw
MockAccuracies == {85, 97}

\* res.json(null)
NullModel == [id |-> 0]

\* JSON.parse(data.toString()) of a chunk of the training script; the accuracy
\* is held in percent
JSONParseTraining(text) ==
    IF text = "{\"accuracy\":0.9}"
    THEN [ok |-> TRUE, accuracy |-> 90]
    ELSE [ok |-> FALSE, accuracy |-> 0]

\* array.filter((_, k) => k !== i - 1)
RemoveAt(seq, i) ==
    [k \in 1..(Len(seq) - 1) |-> IF k < i THEN seq[k] ELSE seq[k + 1]]

\* mlModels.forEach(m => m.isActive = false)
Deactivate(models) ==
    [k \in 1..Len(models) |-> Spread(models[k], [isActive |-> FALSE])]

\* mlModels.find(m => m.isActive) || null
FindActive(models) ==
    LET active == {k \in 1..Len(models) : models[k].isActive}
    IN IF active = {}
       THEN NullModel
       ELSE models[CHOOSE k \in active : \A other \in active : k <= other]

\* MemStorage.getActiveMlModel
getActiveMlModel == FindActive(mlModels)

\* MemStorage.createMlModel: the array after the push
createMlModel(model) ==
    Append(mlModels,
           [id |-> nextId, algorithm |-> model.algorithm,
            accuracy |-> model.accuracy,
            isActive |-> IF "isActive" \in DOMAIN model
                         THEN model.isActive ELSE FALSE,
            trainedAt |-> now])

\* POST /api/train: answers at once and spawns the training script
PostApiTrain(algorithm) ==
    /\ server = "js"
    /\ Len(training) < MaxTrainings
    /\ response' = [kind |-> "train", code |-> 200, status |-> "TRAINING"]
    /\ training' = Append(training, algorithm)
    /\ UNCHANGED <<server, fileAnalyses, threatDetections, nextId, now, proc,
                   timers, submitResponse, hist, completedAtWrites,
                   errorSignal>>
    /\ UNCHANGED <<registryVars, pageVars, pollVars>>
    /\ UNCHANGED <<started, accountVars, mlModels, filterVars, monitoringVars,
                   scanVars>>

\* pythonProcess.stdout.on('data') of the training script started i-th
TrainStdoutData(i, data) ==
    /\ server = "js"
    /\ i \in 1..Len(training)
    /\ Len(mlModels) < MaxModels
    /\ LET result == JSONParseTraining(data)
       IN IF result.ok
          THEN /\ mlModels' = Append(Deactivate(mlModels),
                                     [id |-> nextId,
                                      algorithm |-> training[i],
                                      accuracy |-> result.accuracy,
                                      trainedAt |-> now,
                                      isActive |-> TRUE])
               /\ nextId' = nextId + 1
          ELSE UNCHANGED <<mlModels, nextId>>
    /\ UNCHANGED <<server, fileAnalyses, threatDetections, now, proc,
                   timers, response, submitResponse, hist, completedAtWrites,
                   errorSignal>>
    /\ UNCHANGED <<registryVars, pageVars, pollVars>>
    /\ UNCHANGED <<started, accountVars, training, filterVars, monitoringVars,
                   scanVars>>

\* the training script started i-th ends
TrainExit(i) ==
    /\ server = "js"
    /\ i \in 1..Len(training)
    /\ training' = RemoveAt(training, i)
    /\ UNCHANGED <<server, fileAnalyses, threatDetections, nextId, now, proc,
                   timers, response, submitResponse, hist, completedAtWrites,
                   errorSignal>>
    /\ UNCHANGED <<registryVars, pageVars, pollVars>>
    /\ UNCHANGED <<started, accountVars, mlModels, filterVars, monitoringVars,
                   scanVars>>

\* GET /api/models/active
GetApiModelsActive ==
    /\ server = "js"
    /\ response' = [kind |-> "activeModel", code |-> 200,
                    body |-> FindActive(mlModels)]
    /\ UNCHANGED <<server, fileAnalyses, threatDetections, nextId, now, proc,
                   timers, submitResponse, hist, completedAtWrites,
                   errorSignal>>
    /\ UNCHANGED <<registryVars, pageVars, pollVars>>
    /\ UNCHANGED <<started, accountVars, modelVars, filterVars, monitoringVars,
                   scanVars>>

\* POST /train of the router: answers at once and sets the 5000 ms timeout
RouterPostTrain(algorithm) ==
    /\ server = "ts"
    /\ Len(training) < MaxTrainings
    /\ response' = [kind |-> "train", code |-> 200, status |-> "TRAINING"]
    /\ training' = Append(training, algorithm)
    /\ UNCHANGED <<server, fileAnalyses, threatDetections, nextId, now, proc,
                   timers, submitResponse, hist, completedAtWrites,
                   errorSignal>>
    /\ UNCHANGED <<registryVars, pageVars, pollVars>>
    /\ UNCHANGED <<started, accountVars, mlModels, filterVars, monitoringVars,
                   scanVars>>

\* the timeout callback of the training requested i-th
TrainTimeout(i, mockAccuracy) ==
    /\ server = "ts"
    /\ i \in 1..Len(training)
    /\ Len(mlModels) < MaxModels
    /\ mlModels' = createMlModel([algorithm |-> training[i],
                                  accuracy |-> mockAccuracy,
                                  isActive |-> TRUE])
    /\ nextId' = nextId + 1
    /\ training' = RemoveAt(training, i)
    /\ UNCHANGED <<server, fileAnalyses, threatDetections, now, proc,
                   timers, response, submitResponse, hist, completedAtWrites,
                   errorSignal>>
    /\ UNCHANGED <<registryVars, pageVars, pollVars>>
    /\ UNCHANGED <<started, accountVars, filterVars, monitoringVars, scanVars>>

\* GET /models/active of the router
RouterGetModelsActive ==
    /\ server = "ts"
    /\ response' = [kind |-> "activeModel", code |-> 200,
                    body |-> getActiveMlModel]
    /\ UNCHANGED <<server, fileAnalyses, threatDetections, nextId, now, proc,
                   timers, submitResponse, hist, completedAtWrites,
                   errorSignal>>
    /\ UNCHANGED <<registryVars, pageVars, pollVars>>
    /\ UNCHANGED <<started, accountVars, modelVars, filterVars, monitoringVars,
                   scanVars>>

NextModels ==
    \/ Tick
    \/ \E algorithm \in Algorithms : PostApiTrain(algorithm)
    \/ \E i \in 1..MaxTrainings, data \in TrainingChunks :
          TrainStdoutData(i, data)
    \/ \E i \in 1..MaxTrainings : TrainExit(i)
    \/ GetApiModelsActive
    \/ \E algorithm \in Algorithms : RouterPostTrain(algorithm)
    \/ \E i \in 1..MaxTrainings, mockAccuracy \in MockAccuracies :
          TrainTimeout(i, mockAccuracy)
    \/ RouterGetModelsActive

SpecModels == Init /\ [][NextModels]_vars

----------------------------------------------------------------------------
(* Signup: POST /api/auth/signup of index.js and POST /auth/signup of the
   router over createUser and getUserByEmail of storage.ts.  The handler of
   index.js has no await and runs in one step; the handler of the router is
   suspended at await storage.getUserByEmail(...) and resumed later, and the
   handler of another request can run in between. *)

\* bodies a client posts to the signup route
SignupBodies ==
    {[email |-> "ann@example.org", password |-> "pw", name |-> "Ann"],
     [email |-> "bob@example.org", password |-> "pw", name |-> "Bob"],
     [password |-> "pw", name |-> "Eve"]}

\* body[k] in JavaScript: a field the body lacks reads as undefined
Field(body, k) == IF k \in DOMAIN body THEN body[k] ELSE "undefined"

\* insertUserSchema.parse(req.body) does not throw (shared/schema, not among
\* the sources): a body with an email and a password is taken
insertUserSchemaAccepts(body) ==
    {"email", "password"} \subseteq DOMAIN body

\* users.find(u => u.email === email) finds a user
getUserByEmail(email) ==
    \E k \in 1..Len(users) : users[k].email = email

\* MemStorage.createUser: the array after the push
createUser(user) ==
    Append(users, Spread([id |-> nextId],
                         Spread(user, [createdAt |-> now])))

\* the signup request of caller c is received
SignupSend(c, body) ==
    /\ signups[c].state = "idle"
    /\ signups' = [signups EXCEPT ![c] =
                      [state |-> "sent", body |-> body, existing |-> FALSE,
                       code |-> 0]]
    /\ UNCHANGED <<server, fileAnalyses, threatDetections, nextId, now, proc,
                   timers, response, submitResponse, hist, completedAtWrites,
                   errorSignal>>
    /\ UNCHANGED <<registryVars, pageVars, pollVars>>
    /\ UNCHANGED <<started, users, modelVars, filterVars, monitoringVars,
                   scanVars>>

\* POST /api/auth/signup for the request of caller c
PostApiAuthSignup(c) ==
    /\ server = "js"
    /\ signups[c].state = "sent"
    /\ LET body == signups[c].body
           email == Field(body, "email")
       IN IF getUserByEmail(email)
          THEN /\ signups' = [signups EXCEPT ![c].state = "done",
                                             ![c].existing = TRUE,
                                             ![c].code = 400]
               /\ response' = [kind |-> "signup", code |-> 400]
               /\ UNCHANGED <<users, nextId>>
          ELSE /\ users' = Append(users,
                                  [id |-> nextId, email |-> email,
                                   password |-> Field(body, "password"),
                                   name |-> Field(body, "name"),
                                   createdAt |-> now])
               /\ nextId' = nextId + 1
               /\ signups' = [signups EXCEPT ![c].state = "done",
                                             ![c].code = 201]
               /\ response' = [kind |-> "signup", code |-> 201,
                               email |-> email]
    /\ UNCHANGED <<server, fileAnalyses, threatDetections, now, proc,
                   timers, submitResponse, hist, completedAtWrites,
                   errorSignal>>
    /\ UNCHANGED <<registryVars, pageVars, pollVars>>
    /\ UNCHANGED <<started, modelVars, filterVars, monitoringVars, scanVars>>

\* POST /auth/signup of the router for the request of caller c, up to
\* await storage.getUserByEmail(userData.email)
RouterPostAuthSignup(c) ==
    /\ server = "ts"
    /\ signups[c].state = "sent"
    /\ IF insertUserSchemaAccepts(signups[c].body)
       THEN /\ signups' = [signups EXCEPT
                              ![c].state = "awaiting",
                              ![c].existing =
                                  getUserByEmail(signups[c].body.email)]
            /\ UNCHANGED response
       ELSE /\ signups' = [signups EXCEPT ![c].state = "done",
                                          ![c].code = 400]
            /\ response' = [kind |-> "signup", code |-> 400]
    /\ UNCHANGED <<server, fileAnalyses, threatDetections, nextId, now, proc,
                   timers, submitResponse, hist, completedAtWrites,
                   errorSignal>>
    /\ UNCHANGED <<registryVars, pageVars, pollVars>>
    /\ UNCHANGED <<started, users, modelVars, filterVars, monitoringVars,
                   scanVars>>

\* the same handler from the await on: existingUser is what the lookup
\* returned when it was called
RouterPostAuthSignupResume(c) ==
    /\ server = "ts"
    /\ signups[c].state = "awaiting"
    /\ IF signups[c].existing
       THEN /\ signups' = [signups EXCEPT ![c].state = "done",
                                          ![c].code = 400]
            /\ response' = [kind |-> "signup", code |-> 400]
            /\ UNCHANGED <<users, nextId>>
       ELSE /\ users' = createUser(signups[c].body)
            /\ nextId' = nextId + 1
            /\ signups' = [signups EXCEPT ![c].state = "done",
                                          ![c].code = 201]
            /\ response' = [kind |-> "signup", code |-> 201,
                            email |-> signups[c].body.email]
    /\ UNCHANGED <<server, fileAnalyses, threatDetections, now, proc,
                   timers, submitResponse, hist, completedAtWrites,
                   errorSignal>>
    /\ UNCHANGED <<registryVars, pageVars, pollVars>>
    /\ UNCHANGED <<started, modelVars, filterVars, monitoringVars, scanVars>>

NextSignup ==
    \/ Tick
    \/ \E c \in Callers, body \in SignupBodies : SignupSend(c, body)
    \/ \E c \in Callers : PostApiAuthSignup(c)
    \/ \E c \in Callers : RouterPostAuthSignup(c)
    \/ \E c \in Callers : RouterPostAuthSignupResume(c)

SpecSignup == Init /\ [][NextSignup]_vars

----------------------------------------------------------------------------
(* The polling loops of the clients: pollAnalysisResult (part_000) and
   monitorScanProgress (part_003).  What a status read returns is an input. *)

maxAttempts == 30

\* what GET /analyze/:id can come back with; "throw" is a failed fetch or a
\* body that is not JSON
AnalysisReads == {"ANALYZING", "COMPLETED", "FAILED", "throw"}

\* what GET /api/scan_status/:id can come back with; "error" is a body with
\* an error field, "notok" a response that is not 2xx or a failed fetch
ScanReads == {"scanning", "completed", "failed", "error", "notok"}

\* pollAnalysisResult(analysisId): attempts = 0 and the first poll()
PollAnalysisResult ==
    /\ poll.state = "idle"
    /\ poll' = [state |-> "polling", attempts |-> 0, outcome |-> "none"]
    /\ UNCHANGED monitor
    /\ UNCHANGED <<server, fileAnalyses, threatDetections, nextId, now, proc,
                   timers, response, submitResponse, hist, completedAtWrites,
                   errorSignal, registryVars, pageVars>>
    /\ UNCHANGED <<started, accountVars, modelVars, filterVars, monitoringVars,
                   scanVars>>

\* one run of poll()
Poll(read) ==
    /\ poll.state = "polling"
    /\ poll' =
         CASE read = "COMPLETED" ->
                [poll EXCEPT !.state = "stopped", !.outcome = "displayed"]
           [] read = "FAILED" ->
                [poll EXCEPT !.state = "stopped", !.outcome = "failed"]
           [] read = "throw" ->
                [poll EXCEPT !.state = "stopped", !.outcome = "error"]
           [] OTHER ->
                IF poll.attempts + 1 < maxAttempts
                THEN [poll EXCEPT !.attempts = @ + 1]
                ELSE [state |-> "stopped", attempts |-> poll.attempts + 1,
                      outcome |-> "timeout"]
    /\ UNCHANGED monitor
    /\ UNCHANGED <<server, fileAnalyses, threatDetections, nextId, now, proc,
                   timers, response, submitResponse, hist, completedAtWrites,
                   errorSignal, registryVars, pageVars>>
    /\ UNCHANGED <<started, accountVars, modelVars, filterVars, monitoringVars,
                   scanVars>>

\* checkActiveScan with a scan_id in the URL: the first monitorScanProgress
CheckActiveScan ==
    /\ monitor.state = "idle"
    /\ monitor' = [state |-> "polling", attempts |-> 0, outcome |-> "none"]
    /\ UNCHANGED poll
    /\ UNCHANGED <<server, fileAnalyses, threatDetections, nextId, now, proc,
                   timers, response, submitResponse, hist, completedAtWrites,
                   errorSignal, registryVars, pageVars>>
    /\ UNCHANGED <<started, accountVars, modelVars, filterVars, monitoringVars,
                   scanVars>>

\* one run of monitorScanProgress(scanId); the function keeps no count, the
\* attempts field only tells one armed timer from the next
MonitorScanProgress(read) ==
    /\ monitor.state = "polling"
    /\ monitor' =
         CASE read = "scanning" ->
                [monitor EXCEPT !.attempts = (@ + 1) % 2]
           [] read = "completed" ->
                [monitor EXCEPT !.state = "stopped", !.outcome = "complete"]
           [] read = "failed" ->
                [monitor EXCEPT !.state = "stopped", !.outcome = "failed"]
           [] OTHER ->
                [monitor EXCEPT !.state = "stopped", !.outcome = "error"]
    /\ UNCHANGED poll
    /\ UNCHANGED <<server, fileAnalyses, threatDetections, nextId, now, proc,
                   timers, response, submitResponse, hist, completedAtWrites,
                   errorSignal, registryVars, pageVars>>
    /\ UNCHANGED <<started, accountVars, modelVars, filterVars, monitoringVars,
                   scanVars>>

NextPoll ==
    \/ PollAnalysisResult
    \/ \E read \in AnalysisReads : Poll(read)
    \/ CheckActiveScan
    \/ \E read \in ScanReads : MonitorScanProgress(read)

SpecPoll == InitJs /\ [][NextPoll]_vars

\* a timer that is armed fires and a fetch that was sent settles, so a loop
\* that is polling does run again
FairSpecPoll ==
    /\ SpecPoll
    /\ WF_vars(\E read \in AnalysisReads : Poll(read))
    /\ WF_vars(\E read \in ScanReads : MonitorScanProgress(read))

----------------------------------------------------------------------------
(* The system scans of the dashboard: startQuickScan and startFullScan of
   part_000, with the analysis poll of the same page. *)

\* texts showNotification is called with by the scan functions
ScanWarning == "Scan already in progress"
QuickScanStarted == "Starting quick system scan..."
FullScanStarted == "Starting comprehensive system scan..."
QuickScanCompleted == "Quick scan completed - No threats found"
FullScanCompleted == "Full system scan completed"

\* if (scanInProgress), the test both scan functions begin with, taken as if
\* it never held
ScanAlreadyInProgressNever == FALSE

\* if (scanInProgress), the test both scan functions begin with
ScanAlreadyInProgress == scanInProgress

\* startQuickScan
StartQuickScan ==
    /\ IF ScanAlreadyInProgress
       THEN /\ notification' = ScanWarning
            /\ UNCHANGED <<scanInProgress, scanTimers>>
       ELSE /\ Len(scanTimers) < MaxScanTimers
            /\ scanInProgress' = TRUE
            /\ notification' = QuickScanStarted
            /\ scanTimers' = Append(scanTimers, "quick")
    /\ UNCHANGED <<server, fileAnalyses, threatDetections, nextId, now, proc,
                   timers, response, submitResponse, hist, completedAtWrites,
                   errorSignal>>
    /\ UNCHANGED <<registryVars, pageVars, pollVars>>
    /\ UNCHANGED <<started, accountVars, modelVars, filterVars, monitoringVars,
                   confirmAnswer>>

\* startFullScan; answer is what confirm() returns when it is asked
StartFullScan(answer) ==
    /\ IF ScanAlreadyInProgress
       THEN /\ notification' = ScanWarning
            /\ UNCHANGED <<scanInProgress, scanTimers, confirmAnswer>>
       ELSE IF ~answer
       THEN /\ confirmAnswer' = "no"
            /\ UNCHANGED <<scanInProgress, scanTimers, notification>>
       ELSE /\ Len(scanTimers) < MaxScanTimers
            /\ confirmAnswer' = "yes"
            /\ scanInProgress' = TRUE
            /\ notification' = FullScanStarted
            /\ scanTimers' = Append(scanTimers, "full")
    /\ UNCHANGED <<server, fileAnalyses, threatDetections, nextId, now, proc,
                   timers, response, submitResponse, hist, completedAtWrites,
                   errorSignal>>
    /\ UNCHANGED <<registryVars, pageVars, pollVars>>
    /\ UNCHANGED <<started, accountVars, modelVars, filterVars, monitoringVars>>

\* the 3000 ms timeout of startQuickScan fires; loadDashboardData only
\* redraws the page
QuickScanTimeout(i) ==
    /\ i \in 1..Len(scanTimers)
    /\ scanTimers[i] = "quick"
    /\ scanInProgress' = FALSE
    /\ notification' = QuickScanCompleted
    /\ scanTimers' = RemoveAt(scanTimers, i)
    /\ UNCHANGED <<server, fileAnalyses, threatDetections, nextId, now, proc,
                   timers, response, submitResponse, hist, completedAtWrites,
                   errorSignal>>
    /\ UNCHANGED <<registryVars, pageVars, pollVars>>
    /\ UNCHANGED <<started, accountVars, modelVars, filterVars, monitoringVars,
                   confirmAnswer>>

\* the 8000 ms timeout of startFullScan fires
FullScanTimeout(i) ==
    /\ i \in 1..Len(scanTimers)
    /\ scanTimers[i] = "full"
    /\ scanInProgress' = FALSE
    /\ notification' = FullScanCompleted
    /\ scanTimers' = RemoveAt(scanTimers, i)
    /\ UNCHANGED <<server, fileAnalyses, threatDetections, nextId, now, proc,
                   timers, response, submitResponse, hist, completedAtWrites,
                   errorSignal>>
    /\ UNCHANGED <<registryVars, pageVars, pollVars>>
    /\ UNCHANGED <<started, accountVars, modelVars, filterVars, monitoringVars,
                   confirmAnswer>>

NextDashboard ==
    \/ PollAnalysisResult
    \/ \E read \in AnalysisReads : Poll(read)
    \/ StartQuickScan
    \/ \E answer \in BOOLEAN : StartFullScan(answer)
    \/ \E i \in 1..MaxScanTimers : QuickScanTimeout(i)
    \/ \E i \in 1..MaxScanTimers : FullScanTimeout(i)

SpecDashboard == InitJs /\ [][NextDashboard]_vars

----------------------------------------------------------------------------
(* Properties *)

JobIds == {fileAnalyses[i].id : i \in 1..Len(fileAnalyses)}
Job(id) == fileAnalyses[FindIndex(fileAnalyses, id)]

TerminalWrites(id) ==
    Cardinality({k \in 1..Len(hist[id]) : Terminal(hist[id][k])})

\* C1: for every job, at most one terminal transition ever occurs; a further
\* completion signal after the first terminal write is discarded, so the
\* status is written with a terminal value at most once.
C1_AtMostOneTerminalTransition ==
    \A id \in JobIds : TerminalWrites(id) <= 1

\* C2: in every reachable state and for every job, the result field is
\* non-null if and only if the status is COMPLETED.
C2_ResultIffCompleted ==
    \A id \in JobIds :
        (ResultOf(Job(id)) # NullPayload) <=> (Job(id).status = "COMPLETED")

\* C3: in every reachable state and for every job, the error field is present
\* if and only if the status is FAILED.
C3_ErrorIffFailed ==
    \A id \in JobIds : HasError(Job(id)) <=> (Job(id).status = "FAILED")

\* C4: for every job, completedAt is unset while the job is non-terminal, is
\* set by the step that moves the job into COMPLETED or FAILED, and is never
\* written again: a terminal job has completedAt set and written exactly once.
C4_CompletedAtSetOnceAtTerminal ==
    \A id \in JobIds :
        IF Terminal(Job(id).status)
        THEN HasCompletedAt(Job(id)) /\ completedAtWrites[id] = 1
        ELSE ~HasCompletedAt(Job(id)) /\ completedAtWrites[id] = 0

\* C5: every job is created in the initial non-terminal status whatever the
\* request contains, and is observable in a second non-terminal status
\* (RUNNING) before it is moved to COMPLETED or FAILED.
C5_PendingRunningTerminal ==
    \A id \in JobIds :
        /\ ~Terminal(hist[id][1])
        /\ \A k \in 1..Len(hist[id]) :
              Terminal(hist[id][k]) =>
                  /\ k >= 3
                  /\ ~Terminal(hist[id][k - 1])
                  /\ hist[id][k - 1] # hist[id][1]

\* C6: submit answers as soon as the record is created, without waiting for
\* the routine: every job, also one whose routine never emitted anything, has
\* its 201 response, and the record in that response is in a non-terminal
\* status.
C6_SubmitAnswersNonTerminal ==
    \A id \in JobIds :
        /\ id \in DOMAIN submitResponse
        /\ submitResponse[id].code = 201
        /\ ~Terminal(submitResponse[id].body.status)

\* C7: for every job, two get(jobId) calls made after the job reached a
\* terminal status return the same record, whatever happens between them:
\* no step changes what get answers for a terminal job.
C7_GetStableAfterTerminal ==
    [][\A id \in JobIds :
          Terminal(Job(id).status) => GetAnswer(id)' = GetAnswer(id)]_vars

\* C8: when the routine reported an error or wrote output that cannot be
\* parsed, the job ends FAILED with a non-empty error reason on the record,
\* and the submit call was answered 201, not with an error.
C8_RoutineErrorEndsFailed ==
    \A id \in errorSignal :
        /\ Job(id).status = "FAILED"
        /\ HasError(Job(id))
        /\ Job(id).error # ""
        /\ submitResponse[id].code = 201

\* the threat entry t refers to the job a (the records share the file name)
References(t, a) == t.fileName = a.fileName

SevereCompleted(id) ==
    /\ id \in JobIds
    /\ Job(id).status = "COMPLETED"
    /\ ResultOf(Job(id)) \in {"HIGH", "CRITICAL"}

ThreatRecordedFor(id) ==
    /\ id \in JobIds
    /\ \E i \in 1..Len(threatDetections) :
          /\ References(threatDetections[i], Job(id))
          /\ ~IsQuarantined(threatDetections[i])
          /\ threatDetections[i].threatLevel = ResultOf(Job(id))

\* C9: whenever a job reaches COMPLETED with a result of severity HIGH or
\* CRITICAL, a threat entry referencing that job is created, ACTIVE and with
\* the same severity.
C9_SevereResultRecordsThreat ==
    \A id \in Ids : SevereCompleted(id) ~> ThreatRecordedFor(id)

\* C10: quarantine(threatId) on a threat that is already QUARANTINED fails
\* with an error and leaves the threat unchanged; on an ACTIVE threat it
\* succeeds and sets the threat QUARANTINED.
C10_QuarantineChecksState ==
    (/\ response.kind = "patchThreat"
     /\ response.updates = [isQuarantined |-> TRUE]
     /\ response.code # 404)
    => IF IsQuarantined(response.before)
       THEN response.code >= 400
       ELSE response.code = 200 /\ IsQuarantined(response.body)

\* C11: restore(threatId) succeeds only on a QUARANTINED threat and sets it
\* back to ACTIVE; on an ACTIVE threat it fails with an error and leaves the
\* threat unchanged.
C11_RestoreChecksState ==
    (/\ response.kind = "patchThreat"
     /\ response.updates = [isQuarantined |-> FALSE]
     /\ response.code # 404)
    => IF IsQuarantined(response.before)
       THEN response.code = 200 /\ ~IsQuarantined(response.body)
       ELSE response.code >= 400

\* C20: a submission with a malformed payload (here an analysis request that
\* names no file) is answered with a validation error and creates no job
\* record: no stored job has an empty file name, and no 201 carries one.
C20_MalformedSubmitCreatesNoJob ==
    /\ \A id \in JobIds : Job(id).fileName # ""
    /\ (response.kind = "submit" /\ response.code = 201)
           => response.body.fileName # ""
\* quarantine then restore of one threat, answered consecutively by the
\* PATCH handler, the quarantine having found the threat ACTIVE
QuarantineThenRestore ==
    /\ Len(patches) = 2
    /\ patches[1].code = 200 /\ patches[2].code = 200
    /\ patches[1].id = patches[2].id
    /\ patches[1].updates = [isQuarantined |-> TRUE]
    /\ patches[2].updates = [isQuarantined |-> FALSE]
    /\ ~IsQuarantined(patches[1].before)

\* C13: quarantine followed by restore returns a threat to exactly the state
\* it was in before (ACTIVE, every other field as it was), whatever was done
\* to it earlier, so the round trip can be repeated any number of times.
C13_QuarantineRestoreRoundTrip ==
    QuarantineThenRestore
        => /\ IsQuarantined(patches[1].body)
           /\ patches[2].before = patches[1].body
           /\ patches[2].body = patches[1].before
           /\ ~IsQuarantined(patches[2].body)

\* a round trip has just ended and the stored threat is what it was before
C13_Witness ==
    /\ QuarantineThenRestore
    /\ response = patches[2]
    /\ threatDetections[FindIndex(threatDetections, patches[2].id)]
           = patches[1].before

\* C14: when two quarantine calls on the same ACTIVE threat are in flight
\* together, exactly one is answered with success and the other with an
\* error, and the threat ends QUARANTINED.
C14_ConcurrentQuarantineOneWins ==
    (/\ raceOnActive
     /\ \A c \in Callers : calls[c].state = "done"
     /\ calls["a"].id = calls["b"].id)
    => /\ \E c \in Callers :
             /\ calls[c].code = 200
             /\ \A d \in Callers \ {c} : calls[d].code >= 400
       /\ ~ActiveThreat(calls["a"].id)
\* C15: a bulk quarantine issues one request for every selected id, and a
\* request that is rejected or refused neither stops the others from being
\* issued and settled nor makes the call as a whole fail.
C15_BulkAttemptsEveryId ==
    /\ bulk.phase = "inflight"
          => /\ bulk.requested # <<>>
             /\ DOMAIN bulk.outcome = DOMAIN bulk.requested
    /\ report.kind # "error"
    /\ report.kind = "tally"
          => /\ DOMAIN report.outcome = DOMAIN report.requested
             /\ \A i \in DOMAIN report.outcome : report.outcome[i] \in Outcomes

\* a bulk call has ended with a rejected request next to an accepted one
C15_Witness ==
    /\ report.kind = "tally"
    /\ \E i, j \in DOMAIN report.outcome :
          report.outcome[i] = "rejected" /\ report.outcome[j] = "ok"

\* C16: when a bulk quarantine reports, every requested id is counted exactly
\* once, as succeeded where its own request came back with success and as
\* failed otherwise, so the two counts add up to the number requested.
C16_BulkTallyPartitions ==
    report.kind = "tally"
        => /\ report.successCount + report.failCount = Len(report.requested)
           /\ report.successCount =
                 Cardinality({i \in DOMAIN report.outcome :
                                 report.outcome[i] = "ok"})
           /\ report.failCount =
                 Cardinality({i \in DOMAIN report.outcome :
                                 report.outcome[i] \in {"notok", "rejected"}})

\* a bulk call has reported one success and one refusal
C16_Witness ==
    /\ report.kind = "tally"
    /\ report.successCount = 1
    /\ report.failCount >= 1
    /\ \E i \in DOMAIN report.outcome : report.outcome[i] = "notok"

\* C17: with nothing selected, a bulk quarantine only reports that nothing is
\* selected: no request is issued and no row or selection changes.
C17_EmptySelectionTouchesNothing ==
    [][(selectedThreats = <<>> /\ bulk.phase = "idle")
          => /\ bulk' = bulk
             /\ rows' = rows
             /\ report' # report
                   => report'.kind = "empty" /\ selectedThreats' = <<>>]_vars

\* a bulk call on an empty selection has been turned away
C17_Witness ==
    /\ report.kind = "empty"
    /\ selectedThreats = <<>>
    /\ bulk = NoBulk

\* C18: the tally is reported, and the selection cleared, only in a step that
\* finds every request of the call settled.
C18_TallyAfterAllSettled ==
    [][(report'.kind = "tally" /\ report' # report)
          => /\ bulk.phase = "inflight"
             /\ \A i \in DOMAIN bulk.outcome : bulk.outcome[i] # "pending"
             /\ report'.outcome = bulk.outcome
             /\ selectedThreats' = <<>>
             /\ bulk' = NoBulk]_vars

\* a call over at least two ids has been tallied and the selection is empty
C18_Witness ==
    /\ report.kind = "tally"
    /\ Len(report.requested) >= 2
    /\ selectedThreats = <<>>
\* C12: once a false-positive report on a threat has succeeded, the threat's
\* remediation status is FALSE_POSITIVE_REPORTED and stays so: no later
\* quarantine or restore leaves it active or quarantined.
C12_FalsePositiveIsTerminal ==
    \A id \in reported : rows[id] \notin {"active", "quarantined"}
\* C19: every polling loop of the clients that has started stops, whatever
\* the status reads return: at a terminal status, or with a timeout once its
\* attempts are used up.
C19_PollingLoopsStop ==
    /\ (poll.state = "polling") ~> (poll.state = "stopped")
    /\ (monitor.state = "polling") ~> (monitor.state = "stopped")

\* the part of C19 that is about pollAnalysisResult alone
PollAnalysisResultStops == (poll.state = "polling") ~> (poll.state = "stopped")
PollAttemptsBounded ==
    /\ poll.attempts <= maxAttempts
    /\ poll.outcome = "timeout"
          <=> (poll.state = "stopped" /\ poll.attempts = maxAttempts)
\* ids that a submit call handed out with its 201
Submitted == {id \in DOMAIN submitResponse : submitResponse[id].code = 201}

\* C21: a get changes no record; for an id that no submit returned it answers
\* 404, and for an id that a submit returned it answers 200 with the record
\* of that job.
C21_GetFindsExactlySubmitted ==
    [][(response'.kind = "get" /\ response' # response)
          => /\ UNCHANGED <<fileAnalyses, threatDetections, nextId>>
             /\ IF response'.id \in Submitted
                THEN /\ response'.code = 200
                     /\ response'.body = Job(response'.id)
                     /\ response'.body.id = response'.id
                ELSE response'.code = 404]_vars

\* a get for an id that the server gave to a threat, not to a job, was
\* answered 404 while a job exists
C21_Witness ==
    /\ response.kind = "get"
    /\ response.code = 404
    /\ FindIndex(threatDetections, response.id) # 0
    /\ JobIds # {}
\* C22: the routine is started once for every job a submit created, for no
\* other id, and not again after it failed or ended.
C22_RoutineStartedOnce ==
    /\ DOMAIN started = Submitted
    /\ JobIds = Submitted
    /\ \A id \in DOMAIN started : started[id] = 1

\* a job whose routine reported an error is FAILED and was started once
C22_Witness ==
    \E id \in errorSignal :
        /\ Job(id).status = "FAILED"
        /\ started[id] = 1
        /\ proc[id] = MaxSignals
\* ids of all job and threat records
RecordIds ==
    {fileAnalyses[i].id : i \in 1..Len(fileAnalyses)}
        \cup {threatDetections[i].id : i \in 1..Len(threatDetections)}

\* C24: a record is created with the id the server assigns (and a threat with
\* the creation time as detectedAt), whatever the request body holds; no
\* later step rewrites them; and all record ids are pairwise distinct.
C24_IdAndDetectedAtFixed ==
    [][/\ \A i \in 1..Len(threatDetections) :
             /\ threatDetections'[i].id = threatDetections[i].id
             /\ threatDetections'[i].detectedAt = threatDetections[i].detectedAt
       /\ \A i \in 1..Len(fileAnalyses) :
             fileAnalyses'[i].id = fileAnalyses[i].id
       /\ Len(threatDetections') > Len(threatDetections)
             => /\ threatDetections'[Len(threatDetections')].id = nextId
                /\ threatDetections'[Len(threatDetections')].detectedAt = now
       /\ Len(fileAnalyses') > Len(fileAnalyses)
             => fileAnalyses'[Len(fileAnalyses')].id = nextId
       /\ Cardinality(RecordIds') = Len(fileAnalyses') + Len(threatDetections')
      ]_vars
\* C25: once a bulk quarantine has reported, every threat whose own request
\* came back with success is marked quarantined, also when other requests of
\* the same call failed.
C25_BulkKeepsPartialSuccess ==
    report.kind = "tally"
        => \A i \in DOMAIN report.outcome :
              report.outcome[i] = "ok"
                 => rows[report.requested[i]] = "quarantined"

\* C26: the tally marks as quarantined exactly the rows of the ids whose own
\* request came back with success, whatever happened to selectedThreats
\* while the requests were in flight.
C26_ResultAttributedToItsRequest ==
    [][(report'.kind = "tally" /\ report' # report)
          => \A id \in RowIds :
                rows'[id] =
                   IF \E i \in DOMAIN bulk.outcome :
                         bulk.outcome[i] = "ok" /\ bulk.requested[i] = id
                   THEN "quarantined" ELSE rows[id]]_vars
\* the path holds the text somewhere, letter case aside
HoldsText(path, text) ==
    \E k \in 0..(Len(path) - Len(text)) :
        \A i \in 1..Len(text) :
            ToLowerCase(<<path[k + i]>>) = ToLowerCase(<<text[i]>>)

\* the row matches every field of the filter that is set
MatchesEverySetField(id, filter) ==
    /\ filter.search # <<>> => HoldsText(rowData[id].filePath, filter.search)
    /\ filter.level # "" => rowData[id].threatLevel = filter.level
    /\ filter.status # "" => rows[id] = filter.status
    /\ filter.dateRange = "today" => rowData[id].detectionDate >= now
    /\ filter.dateRange = "week" => rowData[id].detectionDate >= now - 7
    /\ filter.dateRange = "month"
          => \E first \in (now - 29)..now :
                /\ first % 30 = 1
                /\ rowData[id].detectionDate >= first

\* C23: whenever the filter is applied, a row is shown if and only if it
\* matches every filter field that is set (path text, level, status, date
\* range); a field that is not set hides nothing.
C23_FilterIsConjunctive ==
    [][(currentFilter' # currentFilter \/ display' # display)
          => \A id \in RowIds :
                display'[id] <=> MatchesEverySetField(id, currentFilter')]_vars

\* level and status are both set, and a row that has the level but not the
\* status is hidden while another row is shown
C23_Witness ==
    /\ currentFilter.level # ""
    /\ currentFilter.status # ""
    /\ \E id, other \in RowIds :
          /\ rowData[id].threatLevel = currentFilter.level
          /\ rows[id] # currentFilter.status
          /\ ~display[id]
          /\ display[other]

\* C27: at most one monitoring interval timer is active, and none while the
\* page is hidden.
C27_OneMonitoringTimer ==
    /\ Cardinality(intervals) <= 1
    /\ documentHidden => intervals = {}

\* indexes of the models whose isActive is true
ActiveModels == {k \in 1..Len(mlModels) : mlModels[k].isActive}

\* C28: at most one model has isActive = true, it is the one trained last,
\* and the active-model lookup returns it.
C28_OneActiveModelTheNewest ==
    /\ Cardinality(ActiveModels) <= 1
    /\ \A k \in ActiveModels : k = Len(mlModels)
    /\ mlModels # <<>> /\ ActiveModels # {}
          => FindActive(mlModels) = mlModels[Len(mlModels)]

\* C29: at most one client scan is in progress: scanInProgress is true exactly
\* when one completion timer is pending, a call made while it is true
\* schedules no timer, and a declined confirmation leaves it false.
C29_OneScanAtATime ==
    /\ [](scanInProgress <=> Len(scanTimers) = 1)
    /\ [][/\ scanInProgress => Len(scanTimers') <= Len(scanTimers)
          /\ confirmAnswer # "no" /\ confirmAnswer' = "no"
                => ~scanInProgress']_vars

\* a scan is in progress and a further call was just turned away
C29_Witness ==
    /\ scanInProgress
    /\ Len(scanTimers) = 1
    /\ notification = ScanWarning

\* C30: no two stored users share an email: of the signups for one email at
\* most one is answered 201, and every other one creates no user.
C30_NoTwoUsersShareEmail ==
    /\ \A i, j \in 1..Len(users) :
          users[i].email = users[j].email => i = j
    /\ \A c, d \in Callers :
          /\ signups[c].state = "done" /\ signups[c].code = 201
          /\ signups[d].state = "done" /\ signups[d].code = 201
          /\ Field(signups[c].body, "email") = Field(signups[d].body, "email")
          => c = d
====
